---- MODULE Spec2Model ----
(***************************************************************************)
(* Model of the Tencent translation adapter                                *)
(* (src/src/background/library/translators/tencent.js).                    *)
(*                                                                         *)
(* One TencentTranslator object (TRANSLATOR) is shared by all calls.  Each *)
(* call of translate, pronounce, detect or updateTokens is a chain of      *)
(* callbacks; an action of the model is one such callback together with    *)
(* the promise continuations it runs before control returns to the event   *)
(* loop.  The browser (tabs, cookies, audio) and the provider (HTTP) are   *)
(* the environment: what they answer is drawn with \E at the callback.     *)
(***************************************************************************)
EXTENDS Integers, Sequences, FiniteSets, TLC

(* ------------------------------ bounds -------------------------------- *)

\* Longest records[0].targetText the provider answers with, where the
\* parsing of results is checked.
MaxLen == 3

\* Number of calls made on the adapter (call ids are in invocation order).
MaxCalls == 2

\* chrome.tabs.remove invocations whose callbacks are still outstanding for
\* one hidden tab.
MaxRemoves == 2

(* --------------------------- language table --------------------------- *)

LANGUAGES_dupCode ==
    << <<"auto", "auto">>, <<"zh-CN", "zh">>, <<"en", "en">>, <<"ja", "jp">>,
       <<"ko", "jp">>, <<"fr", "fr">>, <<"es", "es">>, <<"it", "it">>,
       <<"de", "de">>, <<"tr", "tr">>, <<"ru", "ru">>, <<"pt", "pt">>,
       <<"vi", "vi">>, <<"id", "id">>, <<"th", "th">>, <<"ms", "ms">>,
       <<"ar", "ar">>, <<"hi", "hi">> >>

LANGUAGES ==
    << <<"auto", "auto">>, <<"zh-CN", "zh">>, <<"en", "en">>, <<"ja", "jp">>,
       <<"ko", "kr">>, <<"fr", "fr">>, <<"es", "es">>, <<"it", "it">>,
       <<"de", "de">>, <<"tr", "tr">>, <<"ru", "ru">>, <<"pt", "pt">>,
       <<"vi", "vi">>, <<"id", "id">>, <<"th", "th">>, <<"ms", "ms">>,
       <<"ar", "ar">>, <<"hi", "hi">> >>

\* new Map(pairs): one entry per key, a later pair overriding an earlier one.
NewMap(pairs) ==
    [k \in {pairs[i][1] : i \in DOMAIN pairs} |->
        LET last == CHOOSE i \in DOMAIN pairs :
                        /\ pairs[i][1] = k
                        /\ \A j \in DOMAIN pairs : pairs[j][1] = k => j <= i
        IN  pairs[last][2]]

\* LANGUAGES.map(([lan, code]) => [code, lan])
SwapPairs(pairs) == [i \in DOMAIN pairs |-> <<pairs[i][2], pairs[i][1]>>]

\* Map.prototype.get: undefined for a key the map does not hold.
MapGet(m, k) == IF k \in DOMAIN m THEN m[k] ELSE "undefined"

MAX_RETRY == 1

BASE_URL == "https://fanyi.qq.com"

(* ------------------------------ strings ------------------------------- *)
\* Texts are sequences of characters, so that splitting is computed.

\* The characters that \s of a regular expression matches.  A character
\* that a string of this notation cannot hold is written as its code point.
WhiteSpace ==
    {" ", "\t", "\n", "\r", "\f", "U+000B", "U+00A0", "U+1680", "U+2000",
     "U+2001", "U+2002", "U+2003", "U+2004", "U+2005", "U+2006", "U+2007",
     "U+2008", "U+2009", "U+200A", "U+2028", "U+2029", "U+202F", "U+205F",
     "U+3000", "U+FEFF"}

IsSpace(ch) == ch \in WhiteSpace

\* array.join(sep) of an array of strings.
RECURSIVE Join(_, _)
Join(strings, sep) ==
    IF strings = <<>> THEN ""
    ELSE IF Len(strings) = 1 THEN strings[1]
    ELSE strings[1] \o sep \o Join(Tail(strings), sep)

\* Length of the longest prefix of s that holds no "/".
RECURSIVE BeforeSlash(_)
BeforeSlash(s) ==
    IF s = <<>> \/ Head(s) = "/" THEN 0 ELSE 1 + BeforeSlash(Tail(s))

\* s without its trailing white space.
RECURSIVE TrimRight(_)
TrimRight(s) ==
    IF s # <<>> /\ IsSpace(s[Len(s)]) THEN TrimRight(SubSeq(s, 1, Len(s) - 1))
    ELSE s

\* A split at the "/" alone, the white space before it kept.
SplitFirst_noTrim(s) == SubSeq(s, 1, BeforeSlash(s))

\* targetText.split(/\s*\/\s*/g)[0]: the text up to the first separator, the
\* separator being a "/" with the white space around it.
SplitFirst(s) ==
    LET n == BeforeSlash(s)
    IN  IF n = Len(s) THEN s ELSE TrimRight(SubSeq(s, 1, n))

(* ----------------------------- the state ------------------------------ *)

VARIABLES
    LAN_TO_CODE,    \* this.LAN_TO_CODE
    CODE_TO_LAN,    \* this.CODE_TO_LAN
    qtk, qtv,       \* this.qtk, this.qtv
    audio,          \* this.AUDIO: [paused, src, owner]; owner is the call
                    \* that assigned src (0: nobody)
    playOrder,      \* the calls that invoked AUDIO.play(), in order
    nextCall,       \* id of the next call to be made
    kind,           \* kind[c]: which method call c is
    args,           \* args[c]: its arguments
    pc,             \* pc[c]: the callback call c is waiting for
    retryCount,     \* retryCount[c]: the closure variable of the call
    reqs,           \* reqs[c]: the HTTP requests the call has sent
    resps,          \* resps[c]: the HTTP responses it has received
    tab,            \* tab[c]: the hidden tab of the call's requestHomePage
    log,            \* log[c]: the API calls and callbacks of c, in order
    outcome         \* outcome[c]: the promise returned to the caller

vars == <<LAN_TO_CODE, CODE_TO_LAN, qtk, qtv, audio, playOrder, nextCall,
          kind, args, pc, retryCount, reqs, resps, tab, log, outcome>>

tableVars == <<LAN_TO_CODE, CODE_TO_LAN>>

Calls == 1..MaxCalls

(* ----------------------- what the environment says -------------------- *)

\* Texts passed by the callers.
Texts == { <<"h", "i">> }

\* (from, to) pairs passed to translate, and languages passed to pronounce.
LangPairs == { <<"ja", "en">> }
PronounceLangs == { "ja" }

\* response.data of the provider.  dict: data.dict is present;
\* hasTranslate: data.translate is present (with records[0] and source);
\* hasSourceText: records[0].sourceText is present; suggest: the array
\* data.suggest.data, empty also when it is absent; abstract: the array
\* data.dict.abstract, empty also when it is absent.
Data(dict, tr, source, hasSrc, src, tgt) ==
    [dict |-> dict, hasTranslate |-> tr, source |-> source,
     hasSourceText |-> hasSrc, sourceText |-> src, targetText |-> tgt,
     suggest |-> <<>>, abstract |-> <<>>]

\* The value of examples_json: absent, a string that is not JSON, or the
\* JSON of an object, with its member 'basic' when it has one.
NoJson == [kind |-> "absent", hasBasic |-> FALSE, basic |-> <<>>]
BadJson == [kind |-> "malformed", hasBasic |-> FALSE, basic |-> <<>>]
Json(hasBasic, basic) ==
    [kind |-> "object", hasBasic |-> hasBasic, basic |-> basic]

\* An item of 'basic'.
Example(src, tgt) == [sourceText |-> src, targetText |-> tgt]

\* An element of suggest.data; a prx_ph_AmE of "" is also an absent one.
Suggestion(ph, json) == [prx_ph_AmE |-> ph, examples_json |-> json]

\* An item of dict.abstract.
Abstract(ps, hasExplanation, explanation) ==
    [ps |-> ps, hasExplanation |-> hasExplanation,
     explanation |-> explanation]

\* data with the arrays suggest.data and dict.abstract.
WithExtras(data, suggest, abstract) ==
    [data EXCEPT !.suggest = suggest, !.abstract = abstract]

NoFields == Data(FALSE, FALSE, "", FALSE, <<>>, <<>>)
DictOnly == Data(TRUE, FALSE, "", FALSE, <<>>, <<>>)
TranslateOnly == Data(FALSE, TRUE, "jp", FALSE, <<>>, <<"a", " ", "/", "b">>)
Full == Data(TRUE, TRUE, "xx", TRUE, <<"h", "i">>, <<"a">>)
\* 'translate' without 'dict', and an examples_json that is not JSON.
BadExamples ==
    WithExtras(Data(FALSE, TRUE, "jp", TRUE, <<"h", "i">>, <<"a">>),
               <<Suggestion("", BadJson)>>, <<>>)

Response(status, data) == [status |-> status, data |-> data]

\* The responses axios resolves with (it rejects on a status outside 2xx:
\* HttpError).
Responses ==
    { Response(200, NoFields), Response(200, DictOnly),
      Response(200, TranslateOnly), Response(200, Full),
      Response(200, BadExamples) }

\* tab.status of a tab handed to an onUpdated listener.
TabStatuses == {"loading", "complete", "unloaded"}

\* The cookie lists chrome.cookies.getAll hands to its callback.
Cookie(n, v) == [name |-> n, value |-> v]
CookieLists ==
    { <<>>,
      << Cookie("fy_guid", "a") >>,
      << Cookie("qtv", "a") >>,
      << Cookie("qtk", "a"), Cookie("fy_guid", "a") >>,
      << Cookie("qtv", "a"), Cookie("qtk", "a") >> }

\* What chrome.cookies.get hands to its callback for "fy_guid": null, a
\* cookie with an empty value, or a cookie with a value.
NullCookie == [present |-> FALSE, value |-> ""]
GuidCookies == { NullCookie, [present |-> TRUE, value |-> ""],
                 [present |-> TRUE, value |-> "g"] }

(* ------------------------------- values ------------------------------- *)

Pending == [state |-> "pending"]
Resolved(v) == [state |-> "resolved", value |-> v]
Rejected(e) == [state |-> "rejected", error |-> e]

\* A rejection reason that is not the adapter's error object: the message
\* of chrome.runtime.lastError, undefined, a TypeError, the error of axios.
Raw(what) == [raw |-> what]

ApiErr(code, msg, obj) ==
    [errorType |-> "API_ERR", errorCode |-> code, errorMsg |-> msg,
     errorObj |-> obj]

TranslateFailedMsg ==
    "Translate failed, please contact developers to report problem."
PronounceFailedMsg ==
    "Pronounce failed, please contact developers to report problem."

\* The hidden tab of a call; cookies is the list that the callback of
\* chrome.cookies.getAll was given.
NoTab == [state |-> "none", listener |-> FALSE, promise |-> "none",
          removes |-> <<>>, nRemove |-> 0, cookies |-> <<>>]

NoArgs == [text |-> <<>>, from |-> "", to |-> "", language |-> ""]

\* AUDIO.src of a new Audio().
NoSrc == [base |-> "", lang |-> "", text |-> <<>>, guid |-> ""]

(* ----------------------------- constructor ---------------------------- *)

Init ==
    /\ LAN_TO_CODE = NewMap(LANGUAGES)
    /\ CODE_TO_LAN = NewMap(SwapPairs(LANGUAGES))
    /\ qtk = ""
    /\ qtv = ""
    /\ audio = [paused |-> TRUE, src |-> NoSrc, owner |-> 0]
    /\ playOrder = <<>>
    /\ nextCall = 1
    /\ kind = [c \in Calls |-> "none"]
    /\ args = [c \in Calls |-> NoArgs]
    /\ pc = [c \in Calls |-> "idle"]
    /\ retryCount = [c \in Calls |-> 0]
    /\ reqs = [c \in Calls |-> <<>>]
    /\ resps = [c \in Calls |-> <<>>]
    /\ tab = [c \in Calls |-> NoTab]
    /\ log = [c \in Calls |-> <<>>]
    /\ outcome = [c \in Calls |-> Pending]

\* A supportedLanguages() that leaves "auto" out.
supportedLanguages_noAuto == DOMAIN LAN_TO_CODE \ {"auto"}

\* supportedLanguages()
supportedLanguages == DOMAIN LAN_TO_CODE

(* ------------------------------ helpers ------------------------------- *)

\* The retry tests of translateOnce and pronounceOnce.
ShouldRetry_noBound(rc) == TRUE

ShouldRetry(rc) == rc < MAX_RETRY

\* "Translate succeeded" test of translateOnce.
TranslateSucceeded(data, rc) ==
    data.dict \/ (data.hasTranslate /\ rc >= MAX_RETRY)

\* What parseResult throws on data, "none" when it returns: a TypeError
\* without translate, a SyntaxError of JSON.parse, a TypeError of .basic.map
\* or of item.explanation.join.
ParseThrows(data) ==
    IF ~data.hasTranslate THEN "TypeError"
    ELSE IF data.suggest # <<>>
            /\ data.suggest[1].examples_json.kind = "malformed"
    THEN "SyntaxError"
    ELSE IF data.suggest # <<>>
            /\ data.suggest[1].examples_json.kind = "object"
            /\ ~data.suggest[1].examples_json.hasBasic
    THEN "TypeError"
    ELSE IF data.dict
            /\ \E i \in DOMAIN data.abstract : ~data.abstract[i].hasExplanation
    THEN "TypeError"
    ELSE "none"

\* parseResult, on data it does not throw on.
parseResult(data, originalText) ==
    LET first == data.suggest[1]
        hasPron == data.suggest # <<>> /\ first.prx_ph_AmE # ""
        hasExamples == data.suggest # <<>>
                       /\ first.examples_json.kind = "object"
        hasMeanings == data.dict /\ data.abstract # <<>>
        fields == {"originalText", "mainMeaning"}
                  \cup (IF hasPron THEN {"sPronunciation"} ELSE {})
                  \cup (IF hasExamples THEN {"examples"} ELSE {})
                  \cup (IF hasMeanings THEN {"detailedMeanings"} ELSE {})
    IN  [f \in fields |->
            CASE f = "originalText" ->
                    IF ~data.hasSourceText \/ Len(data.sourceText) <= 0
                    THEN originalText ELSE data.sourceText
              [] f = "mainMeaning" -> SplitFirst(data.targetText)
              [] f = "sPronunciation" -> first.prx_ph_AmE
              [] f = "examples" ->
                    [i \in DOMAIN first.examples_json.basic |->
                        [source |-> first.examples_json.basic[i].sourceText,
                         target |-> first.examples_json.basic[i].targetText]]
              [] f = "detailedMeanings" ->
                    [i \in DOMAIN data.abstract |->
                        [pos |-> data.abstract[i].ps,
                         meaning |-> Join(data.abstract[i].explanation, ", ")]]]

\* The form data of the request of translateOnce for arguments a, tk and tv
\* being this.qtk and this.qtv when the request is sent.
TranslateRequest(a, tk, tv) ==
    [source |-> MapGet(LAN_TO_CODE, a.from),
     target |-> MapGet(LAN_TO_CODE, a.to),
     sourceText |-> a.text, qtv |-> tv, qtk |-> tk]

\* The form data of the request of detect.
DetectRequest(text) ==
    [source |-> MapGet(LAN_TO_CODE, "auto"),
     target |-> MapGet(LAN_TO_CODE, "zh-CN"),
     sourceText |-> text, qtv |-> "none", qtk |-> "none"]

\* The audio URL of pronounceOnce.
TtsUrl(language, text, guid) ==
    [base |-> BASE_URL, lang |-> MapGet(LAN_TO_CODE, language), text |-> text,
     guid |-> guid]

\* A loop that clears a token whose cookie is missing.
TokenAfter_clears(cookies, name, old) ==
    LET at == {i \in DOMAIN cookies : cookies[i].name = name}
    IN  IF at = {} THEN ""
        ELSE cookies[CHOOSE i \in at : \A j \in at : j <= i].value

\* The loop of updateTokens over the cookies: the value of token `name`
\* after the loop, `old` being its value before.
RECURSIVE TokenAfter(_, _, _)
TokenAfter(cookies, name, old) ==
    IF cookies = <<>> THEN old
    ELSE TokenAfter(Tail(cookies), name,
                    IF Head(cookies).name = name THEN Head(cookies).value
                    ELSE old)

Logged(c, events) == log' = [log EXCEPT ![c] = @ \o events]

Settle(c, o) ==
    /\ outcome' = [outcome EXCEPT ![c] = o]
    /\ pc' = [pc EXCEPT ![c] = "done"]

\* A new call takes the next call id.
NewCall(c, k, a) ==
    /\ c = nextCall
    /\ nextCall' = c + 1
    /\ kind' = [kind EXCEPT ![c] = k]
    /\ args' = [args EXCEPT ![c] = a]

\* stopPronounce: the audio element after it.
Stopped_noPause(a) == a

Stopped(a) == IF ~a.paused THEN [a EXCEPT !.paused = TRUE] ELSE a

\* The first lines of requestHomePage: chrome.tabs.create is invoked.
CreateTab(c) ==
    /\ tab' = [tab EXCEPT ![c] = [NoTab EXCEPT !.state = "creating"]]
    /\ pc' = [pc EXCEPT ![c] = "tabCreate"]

(* ------------------------------ translate ----------------------------- *)

\* translate(text, from, to): retryCount = 0 and the first translateOnce,
\* up to its await of axios.
Translate(c, text, from, to) ==
    /\ NewCall(c, "translate",
               [text |-> text, from |-> from, to |-> to, language |-> ""])
    /\ retryCount' = [retryCount EXCEPT ![c] = 0]
    /\ reqs' = [reqs EXCEPT ![c] = Append(@, TranslateRequest(args'[c], qtk, qtv))]
    /\ pc' = [pc EXCEPT ![c] = "http"]
    /\ Logged(c, <<"axios">>)
    /\ UNCHANGED <<tableVars, qtk, qtv, audio, playOrder, resps, tab, outcome>>

\* axios resolves with a response: the rest of translateOnce.
TranslateResponse(c, response) ==
    /\ kind[c] = "translate"
    /\ pc[c] = "http"
    /\ resps' = [resps EXCEPT ![c] = Append(@, response)]
    /\ LET status == response.status
           data == response.data
       IN
       IF TranslateSucceeded(data, retryCount[c])
       THEN /\ IF ParseThrows(data) = "none"
               THEN Settle(c, Resolved(parseResult(data, args[c].text)))
               ELSE Settle(c, Rejected(Raw(ParseThrows(data))))
            /\ Logged(c, <<"parseResult">>)
            /\ UNCHANGED <<retryCount, tab>>
       ELSE IF ShouldRetry(retryCount[c])
       THEN /\ retryCount' = [retryCount EXCEPT ![c] = @ + 1]
            /\ CreateTab(c)
            /\ Logged(c, <<"updateTokens", "tabs.create">>)
            /\ UNCHANGED outcome
       ELSE /\ Settle(c, Rejected(ApiErr(status, TranslateFailedMsg,
                                         response)))
            /\ UNCHANGED <<retryCount, tab, log>>
    /\ UNCHANGED <<tableVars, qtk, qtv, audio, playOrder, nextCall, kind, args,
                   reqs>>

\* axios rejects (the request fails): translateOnce and detect have no catch.
HttpError(c) ==
    /\ kind[c] \in {"translate", "detect"}
    /\ pc[c] = "http"
    /\ Settle(c, Rejected(Raw("AxiosError")))
    /\ UNCHANGED <<tableVars, qtk, qtv, audio, playOrder, nextCall, kind, args,
                   retryCount, reqs, resps, tab, log>>

(* ------------------------------- detect ------------------------------- *)

Detect(c, text) ==
    /\ NewCall(c, "detect", [NoArgs EXCEPT !.text = text])
    /\ reqs' = [reqs EXCEPT ![c] = Append(@, DetectRequest(text))]
    /\ pc' = [pc EXCEPT ![c] = "http"]
    /\ Logged(c, <<"axios">>)
    /\ UNCHANGED <<tableVars, qtk, qtv, audio, playOrder, retryCount, resps,
                   tab, outcome>>

\* A detect that sends the request again on a response without 'translate'.
DetectResponse_retry(c, response) ==
    /\ kind[c] = "detect"
    /\ pc[c] = "http"
    /\ resps' = [resps EXCEPT ![c] = Append(@, response)]
    /\ IF response.data.hasTranslate
       THEN /\ Settle(c, Resolved(MapGet(CODE_TO_LAN, response.data.source)))
            /\ UNCHANGED reqs
       ELSE /\ Len(reqs[c]) <= MAX_RETRY
            /\ reqs' = [reqs EXCEPT ![c] = Append(@, DetectRequest(args[c].text))]
            /\ UNCHANGED <<pc, outcome>>
    /\ UNCHANGED <<tableVars, qtk, qtv, audio, playOrder, nextCall, kind, args,
                   retryCount, tab, log>>

\* The callback of axios in detect.
DetectResponse(c, response) ==
    /\ kind[c] = "detect"
    /\ pc[c] = "http"
    /\ resps' = [resps EXCEPT ![c] = Append(@, response)]
    /\ IF response.data.hasTranslate
       THEN Settle(c, Resolved(MapGet(CODE_TO_LAN, response.data.source)))
       ELSE Settle(c, Rejected(Raw("TypeError")))
    /\ UNCHANGED <<tableVars, qtk, qtv, audio, playOrder, nextCall, kind, args,
                   retryCount, reqs, tab, log>>

(* --------------------- requestHomePage, updateTokens ------------------ *)

\* updateTokens() called directly.
UpdateTokens(c) ==
    /\ NewCall(c, "updateTokens", NoArgs)
    /\ CreateTab(c)
    /\ Logged(c, <<"updateTokens", "tabs.create">>)
    /\ UNCHANGED <<tableVars, qtk, qtv, audio, playOrder, retryCount, reqs,
                   resps, outcome>>

\* The callback of chrome.tabs.create.  With lastError set the promise of
\* requestHomePage rejects with its message, and so does the call: neither
\* updateTokens nor translateOnce nor the catch block of pronounceOnce
\* handles it.  Otherwise the listener is added.
TabCreated(c, lastError) ==
    /\ pc[c] = "tabCreate"
    /\ IF lastError
       THEN /\ tab' = [tab EXCEPT ![c].state = "failed"]
            /\ Settle(c, Rejected(Raw("lastError.message")))
            /\ Logged(c, <<"tabs.create failed">>)
       ELSE /\ tab' = [tab EXCEPT ![c].state = "open", ![c].listener = TRUE,
                                  ![c].promise = "pending"]
            /\ pc' = [pc EXCEPT ![c] = "waitLoad"]
            /\ Logged(c, <<"tab created", "addListener">>)
            /\ UNCHANGED outcome
    /\ UNCHANGED <<tableVars, qtk, qtv, audio, playOrder, nextCall, kind, args,
                   retryCount, reqs, resps>>

\* The test of tabUpdateListener: the event is for the hidden tab, `own`,
\* and the tab is not loading.
ListenerAccepts(own, status) == ~(~own \/ status = "loading")

\* What runs once the promise of requestHomePage resolves: updateTokens
\* goes on to chrome.cookies.getAll, pronounce to the next pronounceOnce
\* (chrome.cookies.get).
AfterHomePage(c, done) ==
    IF kind[c] = "pronounce"
    THEN /\ pc' = [pc EXCEPT ![c] = "guid"]
         /\ Logged(c, done \o <<"cookies.get">>)
    ELSE /\ pc' = [pc EXCEPT ![c] = "cookies"]
         /\ Logged(c, done \o <<"cookies.getAll">>)

\* A listener that resolves on the load and leaves the tab open.
TabUpdated_resolveFirst(c, own, status) ==
    /\ tab[c].listener
    /\ own /\ status = "complete"
    /\ tab' = [tab EXCEPT ![c].listener = FALSE, ![c].promise = "resolved"]
    /\ AfterHomePage(c, <<"tab complete", "removeListener">>)
    /\ UNCHANGED <<tableVars, qtk, qtv, audio, playOrder, nextCall, kind, args,
                   retryCount, reqs, resps, outcome>>

\* chrome.tabs.onUpdated delivers an event to the listener of call c: of
\* its own hidden tab or of another tab, the tab having `status`.  An
\* accepted event invokes chrome.tabs.remove, its callback capturing status;
\* any other event changes nothing.  (A hidden tab that has stopped loading
\* keeps its status: later events of the tab carry the same one.)
TabUpdated(c, own, status) ==
    /\ tab[c].listener
    /\ own /\ tab[c].removes # <<>> => status \in {"loading", Head(tab[c].removes)}
    /\ IF ListenerAccepts(own, status)
       THEN /\ Len(tab[c].removes) < MaxRemoves
            /\ tab' = [tab EXCEPT ![c].removes = Append(@, status),
                                  ![c].nRemove = @ + 1]
            /\ Logged(c, <<"tab " \o status, "tabs.remove">>)
       ELSE UNCHANGED <<tab, log>>
    /\ UNCHANGED <<tableVars, qtk, qtv, audio, playOrder, nextCall, kind, args,
                   pc, retryCount, reqs, resps, outcome>>

\* The callback of chrome.tabs.remove: the tab is closed, the listener is
\* removed, and the promise is settled by the captured status (a promise
\* that is already settled stays as it is).
TabRemoved(c) ==
    /\ tab[c].removes # <<>>
    /\ LET status == Head(tab[c].removes)
           first == tab[c].promise = "pending"
       IN  /\ tab' = [tab EXCEPT ![c].removes = Tail(@),
                                 ![c].state = "closed",
                                 ![c].listener = FALSE,
                                 ![c].promise =
                                     IF ~first THEN @
                                     ELSE IF status = "complete" THEN "resolved"
                                     ELSE "rejected"]
           /\ IF first /\ status = "complete"
              THEN /\ AfterHomePage(c, <<"tab removed", "removeListener">>)
                   /\ UNCHANGED outcome
              ELSE IF first
              THEN /\ Settle(c, Rejected(Raw("undefined")))
                   /\ Logged(c, <<"tab removed", "removeListener">>)
              ELSE /\ Logged(c, <<"tab removed", "removeListener">>)
                   /\ UNCHANGED <<pc, outcome>>
    /\ UNCHANGED <<tableVars, qtk, qtv, audio, playOrder, nextCall, kind, args,
                   retryCount, reqs, resps>>

\* A retry that sends the tokens as they were before the cookie read.
CookiesRead_stale(c, cookies) ==
    /\ kind[c] \in {"translate", "updateTokens"}
    /\ pc[c] = "cookies"
    /\ qtv' = TokenAfter(cookies, "qtv", qtv)
    /\ qtk' = TokenAfter(cookies, "qtk", qtk)
    /\ tab' = [tab EXCEPT ![c].cookies = cookies]
    /\ IF kind[c] = "translate"
       THEN /\ reqs' = [reqs EXCEPT ![c] =
                           Append(@, TranslateRequest(args[c], qtk, qtv))]
            /\ pc' = [pc EXCEPT ![c] = "http"]
            /\ Logged(c, <<"cookies read", "axios">>)
            /\ UNCHANGED outcome
       ELSE /\ Settle(c, Resolved("undefined"))
            /\ Logged(c, <<"cookies read">>)
            /\ UNCHANGED reqs
    /\ UNCHANGED <<tableVars, audio, playOrder, nextCall, kind, args,
                   retryCount, resps>>

\* The callback of chrome.cookies.getAll in updateTokens; a translate call
\* then runs translateOnce again, with the tokens as they are now.
CookiesRead(c, cookies) ==
    /\ kind[c] \in {"translate", "updateTokens"}
    /\ pc[c] = "cookies"
    /\ qtv' = TokenAfter(cookies, "qtv", qtv)
    /\ qtk' = TokenAfter(cookies, "qtk", qtk)
    /\ tab' = [tab EXCEPT ![c].cookies = cookies]
    /\ IF kind[c] = "translate"
       THEN /\ reqs' = [reqs EXCEPT ![c] =
                           Append(@, TranslateRequest(args[c], qtk', qtv'))]
            /\ pc' = [pc EXCEPT ![c] = "http"]
            /\ Logged(c, <<"cookies read", "axios">>)
            /\ UNCHANGED outcome
       ELSE /\ Settle(c, Resolved("undefined"))
            /\ Logged(c, <<"cookies read">>)
            /\ UNCHANGED reqs
    /\ UNCHANGED <<tableVars, audio, playOrder, nextCall, kind, args,
                   retryCount, resps>>

(* ------------------------------ pronounce ----------------------------- *)

\* stopPronounce() called by the user interface.
StopPronounce ==
    /\ ~audio.paused
    /\ audio' = Stopped(audio)
    /\ UNCHANGED <<tableVars, qtk, qtv, playOrder, nextCall, kind, args, pc,
                   retryCount, reqs, resps, tab, log, outcome>>

\* Playback reaches the end of the audio: the element pauses itself.
AudioEnded ==
    /\ ~audio.paused
    /\ \A c \in Calls : pc[c] # "play"
    /\ audio' = [audio EXCEPT !.paused = TRUE]
    /\ UNCHANGED <<tableVars, qtk, qtv, playOrder, nextCall, kind, args, pc,
                   retryCount, reqs, resps, tab, log, outcome>>

\* pronounce(text, language, speed): stopPronounce, retryCount = 0 and the
\* first pronounceOnce, up to its await of chrome.cookies.get.
Pronounce(c, text, language) ==
    /\ NewCall(c, "pronounce", [NoArgs EXCEPT !.text = text,
                                              !.language = language])
    /\ audio' = Stopped(audio)
    /\ retryCount' = [retryCount EXCEPT ![c] = 0]
    /\ pc' = [pc EXCEPT ![c] = "guid"]
    /\ Logged(c, (IF audio' # audio THEN <<"pause">> ELSE <<>>)
                 \o <<"cookies.get">>)
    /\ UNCHANGED <<tableVars, qtk, qtv, playOrder, reqs, resps, tab, outcome>>

\* A catch block that rethrows what it caught.
PronounceCatch_rethrow(c, error) ==
    IF ShouldRetry(retryCount[c])
    THEN /\ retryCount' = [retryCount EXCEPT ![c] = @ + 1]
         /\ CreateTab(c)
         /\ Logged(c, <<"catch", "tabs.create">>)
         /\ UNCHANGED outcome
    ELSE /\ Settle(c, Rejected(Raw(error)))
         /\ Logged(c, <<"catch">>)
         /\ UNCHANGED <<retryCount, tab>>

\* The catch block of pronounceOnce, error being what was caught.
PronounceCatch(c, error) ==
    IF ShouldRetry(retryCount[c])
    THEN /\ retryCount' = [retryCount EXCEPT ![c] = @ + 1]
         /\ CreateTab(c)
         /\ Logged(c, <<"catch", "tabs.create">>)
         /\ UNCHANGED outcome
    ELSE /\ Settle(c, Rejected(ApiErr(0, PronounceFailedMsg, Raw(error))))
         /\ Logged(c, <<"catch">>)
         /\ UNCHANGED <<retryCount, tab>>

\* A pronounceOnce that plays without assigning AUDIO.src.
GuidRead_noSrc(c, cookie) ==
    /\ kind[c] = "pronounce"
    /\ pc[c] = "guid"
    /\ IF ~cookie.present \/ cookie.value = ""
       THEN /\ PronounceCatch(c, "Tencent guid not found!")
            /\ UNCHANGED <<audio, playOrder>>
       ELSE /\ audio' = [audio EXCEPT !.paused = FALSE]
            /\ playOrder' = Append(playOrder, c)
            /\ pc' = [pc EXCEPT ![c] = "play"]
            /\ Logged(c, <<"play">>)
            /\ UNCHANGED <<retryCount, tab, outcome>>
    /\ UNCHANGED <<tableVars, qtk, qtv, nextCall, kind, args, reqs, resps>>

\* The callback of chrome.cookies.get: without a cookie value the attempt
\* fails; with one, AUDIO.src is assigned and AUDIO.play() invoked.
GuidRead(c, cookie) ==
    /\ kind[c] = "pronounce"
    /\ pc[c] = "guid"
    /\ IF ~cookie.present \/ cookie.value = ""
       THEN /\ PronounceCatch(c, "Tencent guid not found!")
            /\ UNCHANGED <<audio, playOrder>>
       ELSE /\ audio' = [paused |-> FALSE,
                         src |-> TtsUrl(args[c].language, args[c].text,
                                        cookie.value),
                         owner |-> c]
            /\ playOrder' = Append(playOrder, c)
            /\ pc' = [pc EXCEPT ![c] = "play"]
            /\ Logged(c, <<"src", "play">>)
            /\ UNCHANGED <<retryCount, tab, outcome>>
    /\ UNCHANGED <<tableVars, qtk, qtv, nextCall, kind, args, reqs, resps>>

\* The promise of AUDIO.play() settles.
PlaySettled(c, ok) ==
    /\ kind[c] = "pronounce"
    /\ pc[c] = "play"
    /\ IF ok
       THEN /\ Settle(c, Resolved("undefined"))
            /\ UNCHANGED <<retryCount, tab, log>>
       ELSE PronounceCatch(c, "play rejected")
    /\ UNCHANGED <<tableVars, qtk, qtv, audio, playOrder, nextCall, kind, args,
                   reqs, resps>>

(* --------------------------- the specification ------------------------ *)

\* The callbacks of one call that the browser and the HTTP client are sure
\* to deliver once they are due.  A tab update that ends the loading is not
\* among them: nothing obliges the hidden tab ever to finish loading.
Delivered(c) ==
    \/ \E r \in Responses : TranslateResponse(c, r)
    \/ \E r \in Responses : DetectResponse(c, r)
    \/ \E e \in BOOLEAN : TabCreated(c, e)
    \/ TabRemoved(c)
    \/ \E cookies \in CookieLists : CookiesRead(c, cookies)
    \/ \E cookie \in GuidCookies : GuidRead(c, cookie)
    \/ \E ok \in BOOLEAN : PlaySettled(c, ok)

Next ==
    \/ \E c \in Calls, text \in Texts, p \in LangPairs :
           Translate(c, text, p[1], p[2])
    \/ \E c \in Calls, r \in Responses : TranslateResponse(c, r)
    \/ \E c \in Calls : HttpError(c)
    \/ \E c \in Calls, text \in Texts : Detect(c, text)
    \/ \E c \in Calls, r \in Responses : DetectResponse(c, r)
    \/ \E c \in Calls : UpdateTokens(c)
    \/ \E c \in Calls, e \in BOOLEAN : TabCreated(c, e)
    \/ \E c \in Calls, own \in BOOLEAN, st \in TabStatuses :
           TabUpdated(c, own, st)
    \/ \E c \in Calls : TabRemoved(c)
    \/ \E c \in Calls, cookies \in CookieLists : CookiesRead(c, cookies)
    \/ StopPronounce
    \/ AudioEnded
    \/ \E c \in Calls, text \in Texts, l \in PronounceLangs :
           Pronounce(c, text, l)
    \/ \E c \in Calls, cookie \in GuidCookies : GuidRead(c, cookie)
    \/ \E c \in Calls, ok \in BOOLEAN : PlaySettled(c, ok)

Spec == Init /\ [][Next]_vars

FairSpec == Spec /\ \A c \in Calls : WF_vars(Delivered(c))

(* ------------------------ parsing of the results ---------------------- *)
\* One translate call whose first response is accepted, the texts of the
\* response being drawn from all short texts.

Alphabet == {"a", " ", "\t", "/"}

ShortTexts == UNION { [1..n -> Alphabet] : n \in 0..MaxLen }

\* The texts passed to translate.
ParseTexts == { <<"h", "i">>, <<"/">> }

\* Values of suggest.data and of dict.abstract.
Suggestions ==
    { <<>>,
      <<Suggestion("haI", NoJson)>>,
      <<Suggestion("", BadJson)>>,
      <<Suggestion("haI", Json(FALSE, <<>>))>>,
      <<Suggestion("", Json(TRUE, <<>>))>>,
      <<Suggestion("haI", Json(TRUE, <<Example("s", "t"), Example("u", "v")>>))>> }

Abstracts ==
    { <<>>,
      <<Abstract("n.", TRUE, <<"x", "y">>)>>,
      <<Abstract("n.", TRUE, <<"x">>), Abstract("v.", TRUE, <<>>)>>,
      <<Abstract("n.", FALSE, <<>>)>> }

\* Responses with 'dict' and 'translate': records[0].sourceText is absent,
\* empty or a text and records[0].targetText is any short text; or
\* suggest.data and dict.abstract are any of the values above.
ParseResponses ==
    { Response(200, Data(TRUE, TRUE, "jp", hasSrc, src, tgt)) :
        hasSrc \in BOOLEAN, src \in { <<>>, <<"s", "/">> }, tgt \in ShortTexts }
    \cup
    { Response(200, WithExtras(Full, sg, ab)) :
        sg \in Suggestions, ab \in Abstracts }

ParseNext ==
    \/ \E text \in ParseTexts : Translate(1, text, "ja", "en")
    \/ \E r \in ParseResponses : TranslateResponse(1, r)

ParseSpec == Init /\ [][ParseNext]_vars

(* ------------------------- reading the history ------------------------ *)

Count(s, x) == Cardinality({i \in DOMAIN s : s[i] = x})

\* Index of the first x in s, 0 when s holds none.
Pos(s, x) ==
    IF \E i \in DOMAIN s : s[i] = x
    THEN CHOOSE i \in DOMAIN s : s[i] = x /\ \A j \in 1..(i - 1) : s[j] # x
    ELSE 0

\* Index of the last x in s, 0 when s holds none.
LastPos(s, x) ==
    IF \E i \in DOMAIN s : s[i] = x
    THEN CHOOSE i \in DOMAIN s : s[i] = x /\ \A j \in (i + 1)..Len(s) : s[j] # x
    ELSE 0

Last(s) == s[Len(s)]

\* e is the adapter's error object.
IsStructured(e) ==
    /\ DOMAIN e = {"errorType", "errorCode", "errorMsg", "errorObj"}
    /\ e.errorType = "API_ERR"

LacksFields(data) == ~data.dict /\ ~data.hasTranslate

Failed(c) == outcome[c].state = "rejected"

(* ------------------------------- claims ------------------------------- *)

\* C1 (as claimed): a translate call that has ended and whose responses all
\* lacked both 'dict' and 'translate' has sent exactly two requests with
\* exactly one updateTokens between them, and is rejected with an API_ERR
\* object whose errorCode is the status of the second response.
C1_TwoRequestsThenApiErr ==
    \A c \in Calls :
        ( /\ kind[c] = "translate"
          /\ pc[c] = "done"
          /\ resps[c] # <<>>
          /\ \A i \in DOMAIN resps[c] : LacksFields(resps[c][i].data) )
        => /\ Len(reqs[c]) = 2
           /\ Count(log[c], "updateTokens") = 1
           /\ Pos(log[c], "axios") < Pos(log[c], "updateTokens")
           /\ Pos(log[c], "updateTokens") < LastPos(log[c], "axios")
           /\ Failed(c)
           /\ IsStructured(outcome[c].error)
           /\ Len(resps[c]) = 2
           /\ outcome[c].error.errorCode = resps[c][2].status

\* Attempts of a call: the requests of a translate call, the
\* chrome.cookies.get invocations of a pronounce call.
Attempts(c) ==
    IF kind[c] = "pronounce" THEN Count(log[c], "cookies.get") ELSE Len(reqs[c])

\* C2: for every translate and every pronounce call, whatever else is in
\* flight, retryCount never exceeds MAX_RETRY, the call starts at most one
\* refresh (one hidden tab) and makes at most two attempts.
C2_RetryBoundedPerCall ==
    \A c \in Calls :
        kind[c] \in {"translate", "pronounce"}
        => /\ retryCount[c] <= MAX_RETRY
           /\ Count(log[c], "tabs.create") <= 1
           /\ Count(log[c], "tabs.create") = retryCount[c]
           /\ Attempts(c) <= 2

\* Two calls in flight at once, a translate and a pronounce, each having
\* used its own retry and made its second attempt.
C2_Witness ==
    \E c, d \in Calls :
        /\ kind[c] = "translate" /\ kind[d] = "pronounce"
        /\ retryCount[c] = 1 /\ retryCount[d] = 1
        /\ pc[c] = "http" /\ pc[d] = "guid"
        /\ Attempts(c) = 2 /\ Attempts(d) = 2

\* C3 (as claimed): every failure of translate and of pronounce is the
\* structured error object (errorType "API_ERR", errorCode, errorMsg,
\* errorObj).
C3_FailuresAreStructured ==
    \A c \in Calls :
        kind[c] \in {"translate", "pronounce"} /\ Failed(c)
        => IsStructured(outcome[c].error)

\* C4 (as claimed): a pronounce call that makes a second attempt has, before
\* it, visited the provider in a hidden tab and re-read the two session
\* tokens, each exactly once; a call whose second attempt failed is rejected
\* with the structured error of code 0.
C4_RefreshRereadsTokens ==
    \A c \in Calls :
        kind[c] = "pronounce"
        => /\ Attempts(c) = 2
              => /\ Count(log[c], "tabs.create") = 1
                 /\ Count(log[c], "cookies read") = 1
           /\ Count(log[c], "catch") = 2
              => /\ Failed(c)
                 /\ IsStructured(outcome[c].error)
                 /\ outcome[c].error.errorCode = 0

\* C4 (amended): a pronounce call whose attempt failed starts exactly one
\* hidden-tab visit (requestHomePage) and never reads the session tokens;
\* it makes a second attempt only after that visit has completed (tab
\* loaded and closed), never a third; a call whose second attempt failed
\* is rejected with the structured error of code 0, and no pronounce call
\* is rejected with that error otherwise.
C4_VisitThenOneMoreAttempt ==
    \A c \in Calls :
        kind[c] = "pronounce"
        => /\ Count(log[c], "catch") >= 1 => Count(log[c], "tabs.create") = 1
           /\ Count(log[c], "catch") = 0 => Count(log[c], "tabs.create") = 0
           /\ Count(log[c], "cookies.getAll") = 0
           /\ Count(log[c], "cookies read") = 0
           /\ Attempts(c) <= 2
           /\ Attempts(c) = 2
              => /\ tab[c].promise = "resolved"
                 /\ tab[c].state = "closed"
                 /\ Pos(log[c], "tab complete") # 0
                 /\ Pos(log[c], "tab complete") < Pos(log[c], "tab removed")
                 /\ Pos(log[c], "tab removed") < LastPos(log[c], "cookies.get")
           /\ Count(log[c], "catch") = 2
              => /\ Attempts(c) = 2
                 /\ outcome[c].state = "rejected"
                 /\ IsStructured(outcome[c].error)
                 /\ outcome[c].error.errorCode = 0
                 /\ outcome[c].error.errorMsg = PronounceFailedMsg
           /\ Failed(c) /\ tab[c].promise = "resolved"
              => Count(log[c], "catch") = 2

\* A pronounce call whose two attempts failed, with one visit in between.
C4_Witness ==
    \E c \in Calls :
        /\ kind[c] = "pronounce"
        /\ Count(log[c], "catch") = 2
        /\ Attempts(c) = 2
        /\ Count(log[c], "tabs.create") = 1
        /\ Failed(c)
        /\ outcome[c].error.errorObj = Raw("play rejected")

\* Every pronounce log pauses, if at all, first of all, and assigns src and
\* plays only after chrome.cookies.get.
C5_LogOrder ==
    \A c \in Calls :
        kind[c] = "pronounce"
        => /\ \A i \in DOMAIN log[c] : log[c][i] = "pause" => i = 1
           /\ \A i \in DOMAIN log[c] :
                  log[c][i] \in {"src", "play"}
                  => /\ Pos(log[c], "cookies.get") # 0
                     /\ Pos(log[c], "cookies.get") < i
           /\ \A i \in DOMAIN log[c] :
                  log[c][i] = "play" => i > 1 /\ log[c][i - 1] = "src"

\* The step that invokes pronounce pauses a playing audio, leaving its src
\* alone, and does nothing to a paused one.
C5_Invocation ==
    \A c \in Calls :
        kind[c] = "none" /\ kind'[c] = "pronounce"
        => IF ~audio.paused
           THEN /\ audio'.paused
                /\ audio'.src = audio.src
                /\ log'[c] = <<"pause", "cookies.get">>
           ELSE /\ audio' = audio
                /\ log'[c] = <<"cookies.get">>

\* C5: pronounce called while the audio is playing pauses it before the
\* cookie is requested and before src is assigned, and plays only after
\* that; called while the audio is paused it issues no pause.
C5_PauseBeforePlay == []C5_LogOrder /\ [][C5_Invocation]_vars

\* A pronounce call that paused the playing audio of another call and then
\* started its own playback.
C5_Witness ==
    \E c \in Calls :
        /\ kind[c] = "pronounce"
        /\ log[c] = <<"pause", "cookies.get", "src", "play">>
        /\ audio.owner = c
        /\ ~audio.paused

\* The calls that read the tokens: translate and updateTokens.
ReadsTokens(c) == Pos(log[c], "cookies read") # 0

\* C6 (as claimed): the cookie read of a refresh precedes the removal of
\* the hidden tab.
C6_CookiesBeforeRemoval ==
    \A c \in Calls :
        ReadsTokens(c)
        => \/ Pos(log[c], "tabs.remove") = 0
           \/ Pos(log[c], "cookies read") < Pos(log[c], "tabs.remove")

\* C6 (amended): in a refresh the hidden tab is created, its load is
\* observed, the tab is removed, and only then are the cookies read: when
\* chrome.cookies.getAll is invoked the tab is already closed.
C6_RemovalBeforeCookies ==
    \A c \in Calls :
        Pos(log[c], "cookies.getAll") # 0
        => /\ 0 < Pos(log[c], "tabs.create")
           /\ Pos(log[c], "tabs.create") < Pos(log[c], "tab created")
           /\ Pos(log[c], "tab created") < Pos(log[c], "tab complete")
           /\ Pos(log[c], "tab complete") < Pos(log[c], "tabs.remove")
           /\ Pos(log[c], "tabs.remove") < Pos(log[c], "tab removed")
           /\ Pos(log[c], "tab removed") < Pos(log[c], "cookies.getAll")
           /\ ReadsTokens(c)
              => Pos(log[c], "cookies.getAll") < Pos(log[c], "cookies read")
           /\ tab[c].state = "closed"

\* A refresh that has read the cookies, its hidden tab closed before.
C6_Witness ==
    \E c \in Calls :
        /\ kind[c] = "updateTokens"
        /\ ReadsTokens(c)
        /\ tab[c].state = "closed"
        /\ qtk = "a" /\ qtv = "a"

\* C7 (as claimed): a requestHomePage that has been started always
\* eventually settles (its promise resolves or rejects).
C7_RefreshSettles ==
    \A c \in Calls :
        (tab[c].state \in {"creating", "open"} /\ tab[c].promise # "resolved"
            /\ tab[c].promise # "rejected")
        ~> (tab[c].state = "failed" \/ tab[c].promise \in {"resolved", "rejected"})

\* C8: AUDIO.src is always the URL assigned by the call that invoked
\* AUDIO.play() last, whatever the order in which the calls were made: a
\* call made earlier whose retry plays after a later call's playback takes
\* the audio over (C8_Witness is such a state).
C8_LastPlayerOwnsAudio ==
    playOrder # <<>>
    => /\ audio.owner = Last(playOrder)
       /\ kind[audio.owner] = "pronounce"
       /\ audio.src.lang = MapGet(LAN_TO_CODE, args[audio.owner].language)
       /\ audio.src.text = args[audio.owner].text
       /\ Count(log[audio.owner], "play") = Count(playOrder, audio.owner)
       /\ Count(log[audio.owner], "src") = Count(playOrder, audio.owner)

\* Call 1 played, call 2 (made later) paused it and played, and then the
\* retry of call 1, after its hidden-tab visit, assigned src and played:
\* the audio now playing is that of call 1.
C8_Witness ==
    /\ MaxCalls >= 2
    /\ kind[1] = "pronounce" /\ kind[2] = "pronounce"
    /\ playOrder = <<1, 2, 1>>
    /\ log[2][1] = "pause"
    /\ retryCount[1] = 1 /\ retryCount[2] = 0
    /\ Pos(log[1], "tab removed") # 0
    /\ audio.owner = 1
    /\ ~audio.paused
    /\ pc[1] = "play"

\* Every state of a detect call: one request at most, from "auto" to the
\* code of "zh-CN", without tokens; no tab; no retry; a result that is the
\* canonical tag of the reported source code; a failure after one request.
C9_DetectState ==
    \A c \in Calls :
        kind[c] = "detect"
        => /\ Len(reqs[c]) = 1
           /\ reqs[c][1].source = "auto"
           /\ reqs[c][1].target = "zh"
           /\ reqs[c][1].qtk = "none" /\ reqs[c][1].qtv = "none"
           /\ tab[c] = NoTab
           /\ retryCount[c] = 0
           /\ Len(resps[c]) <= 1
           /\ pc[c] = "done" <=> outcome[c].state # "pending"
           /\ outcome[c].state = "resolved"
              => /\ Len(resps[c]) = 1
                 /\ resps[c][1].data.hasTranslate
                 /\ outcome[c].value = MapGet(CODE_TO_LAN, resps[c][1].data.source)
                 /\ resps[c][1].data.source = "jp" => outcome[c].value = "ja"
                 /\ resps[c][1].data.source = "xx" => outcome[c].value = "undefined"
           /\ Len(resps[c]) = 1 /\ ~resps[c][1].data.hasTranslate
              => Failed(c)

\* No step of a detect call changes the tokens.
C9_DetectStep ==
    \A c \in Calls :
        kind'[c] = "detect" /\ pc'[c] # pc[c] => qtk' = qtk /\ qtv' = qtv

\* C9: detect sends exactly one request (source "auto", target the code of
\* "zh-CN"), opens no tab, neither refreshes nor changes qtk and qtv, and
\* never retries: a failed or malformed response fails the call without a
\* second request, a good one returns CODE_TO_LAN of the reported code.
C9_DetectSingleRequest == []C9_DetectState /\ [][C9_DetectStep]_vars

\* Two detect calls: one returned "ja" for the reported code "jp", the
\* other failed on a response without 'translate' after its one request.
C9_Witness ==
    \E c, d \in Calls :
        /\ kind[c] = "detect" /\ kind[d] = "detect"
        /\ outcome[c] = Resolved("ja")
        /\ Failed(d) /\ Len(reqs[d]) = 1 /\ Len(resps[d]) = 1

\* C10: for every canonical tag t of supportedLanguages() but "auto",
\* CODE_TO_LAN.get(LAN_TO_CODE.get(t)) = t, and no two tags share a code.
C10_RoundTrip ==
    /\ \A t \in supportedLanguages \ {"auto"} :
           MapGet(CODE_TO_LAN, MapGet(LAN_TO_CODE, t)) = t
    /\ \A t, u \in supportedLanguages :
           MapGet(LAN_TO_CODE, t) = MapGet(LAN_TO_CODE, u) => t = u
    /\ Cardinality(DOMAIN CODE_TO_LAN) = Cardinality(supportedLanguages)

\* The two lookups in use: a translate call has sent "jp" for the tag "ja"
\* and a detect call has returned "ja" for the code "jp".
C10_Witness ==
    \E c, d \in Calls :
        /\ kind[c] = "translate" /\ args[c].from = "ja"
        /\ reqs[c][1].source = "jp"
        /\ kind[d] = "detect" /\ outcome[d] = Resolved("ja")
        /\ "ja" \in supportedLanguages
        /\ Cardinality(supportedLanguages) = Len(LANGUAGES)

\* The result of a translate call that succeeded, and the response parsed.
Succeeded(c) == kind[c] = "translate" /\ outcome[c].state = "resolved"

Parsed(c) == Last(resps[c]).data

HasSlash(s) == \E i \in DOMAIN s : s[i] = "/"

\* originalText is records[0].sourceText when that is a non-empty text, and
\* the text passed to translate when it is absent or empty.
OriginalTextFallsBack(c) ==
    outcome[c].value.originalText =
        IF Parsed(c).hasSourceText /\ Parsed(c).sourceText # <<>>
        THEN Parsed(c).sourceText
        ELSE args[c].text

\* C11 (as claimed): when translate succeeds, originalText falls back to
\* the text passed, and mainMeaning is the part of records[0].targetText
\* before the first "/".
C11_MeaningBeforeSlash ==
    \A c \in Calls :
        Succeeded(c)
        => /\ OriginalTextFallsBack(c)
           /\ LET t == Parsed(c).targetText
              IN  outcome[c].value.mainMeaning =
                      IF HasSlash(t) THEN SubSeq(t, 1, Pos(t, "/") - 1) ELSE t

\* C11 (amended): when translate succeeds, originalText falls back to the
\* text passed, and mainMeaning is the part of records[0].targetText before
\* the first "/" without the white space that ends it (the separator is
\* the "/" with the white space around it); the whole targetText when it
\* holds no "/".
C11_MeaningBeforeSeparator ==
    \A c \in Calls :
        Succeeded(c)
        => /\ OriginalTextFallsBack(c)
           /\ LET t == Parsed(c).targetText
                  m == outcome[c].value.mainMeaning
                  n == Len(m)
              IN  IF ~HasSlash(t) THEN m = t
                  ELSE /\ n < Pos(t, "/")
                       /\ m = SubSeq(t, 1, n)
                       /\ n > 0 => ~IsSpace(m[n])
                       /\ \A i \in (n + 1)..(Pos(t, "/") - 1) : IsSpace(t[i])

\* A result parsed from a response without sourceText whose targetText has
\* white space before its "/".
C11_Witness ==
    \E c \in Calls :
        /\ Succeeded(c)
        /\ ~Parsed(c).hasSourceText
        /\ Parsed(c).targetText = <<"a", " ", "/">>
        /\ outcome[c].value = [originalText |-> args[c].text,
                               mainMeaning |-> <<"a">>]

\* The canonical tags of the language table.
CanonicalTags ==
    {"auto", "zh-CN", "en", "ja", "ko", "fr", "es", "it", "de", "tr", "ru",
     "pt", "vi", "id", "th", "ms", "ar", "hi"}

\* supportedLanguages() is the 18 first components of LANGUAGES, and the
\* two maps hold the pairs of LANGUAGES, each way.
C12_Table ==
    /\ supportedLanguages = CanonicalTags
    /\ supportedLanguages = {LANGUAGES[i][1] : i \in DOMAIN LANGUAGES}
    /\ Cardinality(supportedLanguages) = 18
    /\ \A i \in DOMAIN LANGUAGES :
           /\ MapGet(LAN_TO_CODE, LANGUAGES[i][1]) = LANGUAGES[i][2]
           /\ MapGet(CODE_TO_LAN, LANGUAGES[i][2]) = LANGUAGES[i][1]
    /\ DOMAIN CODE_TO_LAN = {LANGUAGES[i][2] : i \in DOMAIN LANGUAGES}

\* No step changes either map.
C12_TableStep == LAN_TO_CODE' = LAN_TO_CODE /\ CODE_TO_LAN' = CODE_TO_LAN

\* C12: supportedLanguages() returns exactly the canonical tags of the
\* language table, "auto" included, and this set and both lookup maps are
\* the same after any sequence of detect, translate, pronounce,
\* stopPronounce and updateTokens calls.
C12_TableFixed == []C12_Table /\ [][C12_TableStep]_vars

\* After a translate call that refreshed the tokens and a pronounce call
\* that played, the table is as constructed.
C12_Witness ==
    \E c, d \in Calls :
        /\ kind[c] = "translate" /\ pc[c] = "done" /\ Len(reqs[c]) = 2
        /\ kind[d] = "pronounce" /\ pc[d] = "done" /\ playOrder # <<>>
        /\ qtk = "a"
        /\ "auto" \in supportedLanguages
        /\ Cardinality(supportedLanguages) = 18

\* The retry request of a translate call follows, in the call's history,
\* the load of the hidden tab, its removal and the cookie read.
C13_RetryAfterRead ==
    \A c \in Calls :
        kind[c] = "translate" /\ Len(reqs[c]) >= 2
        => LET l == log[c] IN
           /\ Len(reqs[c]) = 2
           /\ Count(l, "axios") = 2
           /\ Count(l, "cookies read") = 1
           /\ tab[c].promise = "resolved"
           /\ Pos(l, "axios") < Pos(l, "updateTokens")
           /\ Pos(l, "updateTokens") < Pos(l, "tab complete")
           /\ Pos(l, "tab complete") < Pos(l, "cookies.getAll")
           /\ Pos(l, "cookies.getAll") < Pos(l, "cookies read")
           /\ Pos(l, "cookies read") < LastPos(l, "axios")

\* The step that sends the retry request is the cookie read of the call, and
\* the request holds the tokens as they are after that step.
C13_RetryStep ==
    \A c \in Calls :
        Len(reqs[c]) = 1 /\ Len(reqs'[c]) = 2 /\ kind[c] = "translate"
        => /\ pc[c] = "cookies"
           /\ reqs'[c][1] = reqs[c][1]
           /\ reqs'[c][2].qtk = qtk'
           /\ reqs'[c][2].qtv = qtv'
           /\ reqs'[c][2].sourceText = reqs[c][1].sourceText

\* C13: the retry request of a translate call is sent only after the
\* refresh it started has loaded the tab and read the cookies, and it holds
\* the values of qtk and qtv that the adapter holds when the retry is sent,
\* not those sent with the first request.
C13_RetryCarriesCurrentTokens == []C13_RetryAfterRead /\ [][C13_RetryStep]_vars

\* A translate call whose first request held empty tokens and whose retry
\* holds the tokens just read.
C13_Witness ==
    \E c \in Calls :
        /\ kind[c] = "translate" /\ Len(reqs[c]) = 2
        /\ reqs[c][1].qtk = "" /\ reqs[c][1].qtv = ""
        /\ reqs[c][2].qtk = "a" /\ reqs[c][2].qtv = "a"
        /\ tab[c].cookies = <<Cookie("qtv", "a"), Cookie("qtk", "a")>>

\* The call was rejected with the adapter's error object.
RejectedApiErr(c) == Failed(c) /\ IsStructured(outcome[c].error)

\* C14 (as claimed): a first response is accepted only if it holds 'dict'
\* (one that holds 'translate' without 'dict' starts a refresh and a retry);
\* a retry response that holds 'translate' is accepted without 'dict'.  So
\* the call resolves with the parsed result whenever the retry response
\* holds 'translate', and it is rejected with API_ERR only when the retry
\* response holds neither field.
C14_AcceptanceByAttempt ==
    \A c \in Calls :
        kind[c] = "translate" /\ resps[c] # <<>>
        => LET first == resps[c][1].data
               n == Len(resps[c])
           IN
           /\ n <= 2
           /\ first.dict
              => /\ n = 1 /\ Len(reqs[c]) = 1 /\ pc[c] = "done"
                 /\ Count(log[c], "updateTokens") = 0
           /\ ~first.dict
              => /\ Count(log[c], "updateTokens") = 1
                 /\ retryCount[c] = 1
                 /\ n = 1 => ~Succeeded(c) /\ ~RejectedApiErr(c)
           /\ n = 2 /\ resps[c][2].data.hasTranslate
              => /\ Succeeded(c)
                 /\ outcome[c].value.mainMeaning
                        = SplitFirst(resps[c][2].data.targetText)
           /\ RejectedApiErr(c) <=> n = 2 /\ LacksFields(resps[c][2].data)

\* requestHomePage of call c got its tab created.
TabWasCreated(c) == tab[c].state \in {"open", "closed"}

\* C15 (as claimed): for every requestHomePage whose tab was created,
\* whatever tab-update events are delivered, chrome.tabs.remove is invoked at
\* most once for the tab, and once the promise has settled the listener is
\* no longer registered and the hidden tab is closed.
C15_RemoveOnceNoLeak ==
    \A c \in Calls :
        TabWasCreated(c)
        => /\ tab[c].nRemove <= 1
           /\ Count(log[c], "tabs.remove") <= 1
           /\ tab[c].promise \in {"resolved", "rejected"}
              => ~tab[c].listener /\ tab[c].state = "closed"

\* Call c reads the cookies in this step.
ReadsCookiesNow(c) == pc[c] = "cookies" /\ pc'[c] # "cookies"

\* The token `old` becomes `new` as the cookies cs say: unchanged without a
\* cookie called name, the value of the last such cookie otherwise.
TokenFollows(cs, name, old, new) ==
    LET at == {i \in DOMAIN cs : cs[i].name = name}
    IN  /\ at = {} => new = old
        /\ at # {} => \E i \in at : new = cs[i].value /\ \A j \in at : j <= i

\* C16: the cookie read of a refresh changes qtv (qtk) only when a cookie of
\* that name is present; without one the token keeps its value and is not
\* cleared; cookies of other names change nothing; the promise of
\* updateTokens resolves even when neither cookie is present; no other step
\* changes a token.
C16_TokenStep ==
    /\ \A c \in Calls :
           ReadsCookiesNow(c)
           => LET cs == tab'[c].cookies IN
              /\ TokenFollows(cs, "qtv", qtv, qtv')
              /\ TokenFollows(cs, "qtk", qtk, qtk')
              /\ kind[c] = "updateTokens" => outcome'[c] = Resolved("undefined")
              /\ kind[c] = "translate" => Len(reqs'[c]) = Len(reqs[c]) + 1
    /\ qtv' # qtv \/ qtk' # qtk => \E c \in Calls : ReadsCookiesNow(c)

C16_TokensFollowCookies == [][C16_TokenStep]_vars

\* Two refreshes have resolved, one given a 'qtk' cookie and a cookie of
\* another name, one given no cookie: qtk is fresh and qtv is still the
\* initial empty string.
C16_Witness ==
    \E c, d \in Calls :
        /\ kind[c] = "updateTokens" /\ outcome[c] = Resolved("undefined")
        /\ kind[d] = "updateTokens" /\ outcome[d] = Resolved("undefined")
        /\ tab[c].cookies = <<Cookie("qtk", "a"), Cookie("fy_guid", "a")>>
        /\ Pos(log[d], "cookies read") # 0 /\ tab[d].cookies = <<>>
        /\ qtk = "a" /\ qtv = ""

====
